---- MODULE Spec2Model ----
(***************************************************************************)
(* Model of the Krita plugin's Script object (krita_diff/script.py), in    *)
(* its two revisions:                                                      *)
(*   new: src/frontends/krita/krita_diff/script.py   (asynchronous client, *)
(*        frozen img_inserter closure)         -> specification Spec       *)
(*   old: src/krita_plugin/krita_diff/script.py      (timer callback with  *)
(*        a blocking client, insert_img)       -> specification SpecOld    *)
(* The host (Krita documents, layers, selections) and the backend are the  *)
(* environment: the user changes the live selection / document, and the    *)
(* backend answers a request with None or with a list of images.           *)
(* Images are modelled by their dimensions <<w, h>>.                       *)
(***************************************************************************)
EXTENDS Integers, Sequences, FiniteSets, TLC

VARIABLES
    docs,       \* host: DocId -> document (canvas size, format, selection, layers)
    activeDoc,  \* host: Krita.instance().activeDocument(), NoDoc when none is open
    self,       \* the Script object's attributes doc, node, selection, x, y, width, height
    pending,    \* requests posted to the backend whose callback has not fired yet
    timers,     \* QTimer.singleShot callbacks not fired yet
    ev,         \* what the last step did (statuses emitted, inserts, error): observation only
    nacts,      \* number of action invocations so far
    nuser,      \* number of user steps so far
    nimg        \* number of images the backend has returned so far

vars == <<docs, activeDoc, self, pending, timers, ev, nacts, nuser, nimg>>

---------------------------------------------------------------------------
\* Bounds of the model
MaxDim == 2       \* side of the initial canvases and of the user's selections
MaxOff == 1       \* largest offset of a user selection
MaxImg == 3       \* largest side of an image the backend returns
MaxActs == 2      \* action invocations in a run
MaxImages == 2    \* images returned by the backend in a run
MaxUser == 1      \* user steps in a run
MaxCanvas == 3    \* side of the canvases the adjustment is tried on

---------------------------------------------------------------------------
\* Values of the host and of Python

NoDoc == 0                  \* activeDocument() is None
DocIds == {1, 2}
Unset == -1                 \* an attribute of Script that was never assigned
None == <<>>                \* Python None where a rectangle or a node is expected
UnsetRef == <<Unset>>       \* a never-assigned attribute holding a selection or node

Min(a, b) == IF a < b THEN a ELSE b
Max(a, b) == IF a > b THEN a ELSE b

\* A selection is None or <<x, y, w, h>>; a Selection object may be empty (w or h < 1).
SelX(s) == s[1]
SelY(s) == s[2]
SelW(s) == s[3]
SelH(s) == s[4]

\* Bytes per pixel of a layer of a document with this colour depth and model.
BytesPerPixel(d) ==
    IF d.colorModel = "RGBA" THEN (IF d.colorDepth = "U8" THEN 4 ELSE 8) ELSE 2

NoMask == <<Unset>>

Layer(name, type) ==
    [name |-> name, type |-> type, visible |-> TRUE, px |-> 0, mask |-> NoMask]

Document(w, h, depth, model, baseType) ==
    [width |-> w, height |-> h, colorDepth |-> depth, colorModel |-> model,
     selection |-> None, layers |-> <<Layer(<<"Background", 0>>, baseType)>>, active |-> 1]

\* Config: the options script.py reads. The boolean options are the user's
\* settings at the moment a handler reads them (an input of the handler).
sd_base_size == 2
sd_max_size == 4

\* Status strings of defaults.py, by name
STATE_WAIT == "STATE_WAIT"
ERR_NO_DOCUMENT == "ERR_NO_DOCUMENT"
STATE_TXT2IMG == "STATE_TXT2IMG"
STATE_IMG2IMG == "STATE_IMG2IMG"
STATE_INPAINT == "STATE_INPAINT"
STATE_UPSCALE == "STATE_UPSCALE"

Ops == {"txt2img", "img2img", "inpaint", "upscale"}

\* Images the backend may return and the outputs lists made of them
Images == (1..MaxImg) \X (1..MaxImg)
OutputLists == UNION {[1..n -> Images] : n \in 0..MaxImages}

\* Selections the user can make in a document: none, an empty Selection object
\* (width and height below 1), or a strip along the canvas's right or bottom
\* edge (offset in one direction, full extent in the other).
Selections(d) ==
    {None, <<0, 0, 0, 0>>}
    \cup {s \in (0..MaxOff) \X (0..MaxOff) \X (1..MaxDim) \X (1..MaxDim) :
            /\ SelX(s) + SelW(s) = d.width
            /\ SelY(s) + SelH(s) = d.height
            /\ (SelX(s) = 0) # (SelY(s) = 0)}

\* The backend's answer to one request: None, or a response with its outputs
Responses ==
    {[isNone |-> TRUE, outputs |-> <<>>]}
    \cup {[isNone |-> FALSE, outputs |-> o] : o \in OutputLists}

\* the responses with at most n images
ResponsesUpTo(n) == {r \in Responses : Len(r.outputs) <= n}

NoReq == <<>>

NoResponse == [isNone |-> TRUE, outputs |-> <<>>]

\* The observation of one step: the handler and operation, the statuses emitted,
\* the exception raised, the inserts made, the request dispatched (an action) or
\* answered (a callback), the option read, the response received
Observation(kind, op, emitted, err, inserts, req, opt, response) ==
    [kind |-> kind, op |-> op, emitted |-> emitted, err |-> err,
     inserts |-> inserts, req |-> req, opt |-> opt, response |-> response]

Event(kind, op, emitted, err, inserts, req, opt) ==
    Observation(kind, op, emitted, err, inserts, req, opt, NoResponse)

---------------------------------------------------------------------------
\* utils.py (not among the sources): modelled from the specification

\* b64_to_img: decoding yields an image of the encoded dimensions
b64_to_img(enc) == [w |-> enc[1], h |-> enc[2]]

\* img_to_ba: the raw RGBA bytes of an image, 4 per pixel
img_to_ba(image) == image.w * image.h * 4

\* create_layer: a new paint layer named layer_name is added on top of the document
create_layer(d, layer_name) ==
    [d EXCEPT !.layers = Append(@, Layer(layer_name, "paintlayer"))]

\* Smallest size >= n that is a multiple of base, not above max_size unless n
\* itself is, and not above the canvas
FitSize(base_size, max_size, n, canvas) ==
    LET up == ((n + base_size - 1) \div base_size) * base_size
    IN Min(canvas, Max(n, Min(max_size, up)))

\* find_optimal_selection_region (section 4.1): the enclosing rectangle sized to
\* the tiling, keeping the corner when it fits and shifting it to stay in bounds
find_optimal_selection_region(base_size, max_size, x, y, width, height, canvas_width, canvas_height) ==
    LET w == FitSize(base_size, max_size, width, canvas_width)
        h == FitSize(base_size, max_size, height, canvas_height)
    IN <<Max(0, Min(x, canvas_width - w)), Max(0, Min(y, canvas_height - h)), w, h>>

---------------------------------------------------------------------------
\* Script, new revision (src/frontends/krita/krita_diff/script.py)

\* `if not self.doc`
NoDocument(d) == d = NoDoc

is_not_selected(sel) == sel = None \/ SelW(sel) < 1 \/ SelH(sel) < 1

\* x, y, width, height as update_selection assigns them
SelectionRect(sel, d) ==
    IF is_not_selected(sel) THEN <<0, 0, d.width, d.height>>
    ELSE <<SelX(sel), SelY(sel), SelW(sel), SelH(sel)>>

\* self.selection after update_selection: None also for an empty Selection object
KeptSelection(sel) == IF is_not_selected(sel) THEN None ELSE sel

\* (variant: only the colour depth is asserted)
ColorAssertionsDepthOnly(d) == d.colorDepth = "U8"

\* the two assertions closing update_selection
ColorAssertions(d) == d.colorDepth = "U8" /\ d.colorModel = "RGBA"

\* update_selection: the attributes afterwards, the status emitted, the error raised
update_selection(s) ==
    IF NoDocument(activeDoc)
    THEN [self |-> [s EXCEPT !.doc = activeDoc],
          emitted |-> <<ERR_NO_DOCUMENT>>, err |-> ""]
    ELSE LET d == docs[activeDoc]
             r == SelectionRect(d.selection, d)
         IN [self |-> [doc |-> activeDoc, node |-> <<activeDoc, d.active>>,
                       selection |-> KeptSelection(d.selection),
                       x |-> r[1], y |-> r[2], width |-> r[3], height |-> r[4]],
             emitted |-> <<>>,
             err |-> IF ColorAssertions(d) THEN "" ELSE "AssertionError"]

\* (variant: the option is not consulted)
AdjustEnabledAnyOption(s, fix_aspect_ratio) == s.selection # None

\* the guard of adjust_selection
AdjustEnabled(s, fix_aspect_ratio) == s.selection # None /\ fix_aspect_ratio

\* (variant: the canvas's height is passed for its width and the reverse)
CanvasSizeSwapped(d) == <<d.height, d.width>>

\* the last two arguments of the call: self.doc.width(), self.doc.height()
CanvasSize(d) == <<d.width, d.height>>

\* adjust_selection with the two sizes it reads from the configuration
adjust_selection_cfg(s, fix_aspect_ratio, base_size, max_size) ==
    IF AdjustEnabled(s, fix_aspect_ratio)
    THEN LET r == find_optimal_selection_region(base_size, max_size,
                      s.x, s.y, s.width, s.height,
                      CanvasSize(docs[s.doc])[1], CanvasSize(docs[s.doc])[2])
         IN [s EXCEPT !.x = r[1], !.y = r[2], !.width = r[3], !.height = r[4]]
    ELSE s

adjust_selection(s, fix_aspect_ratio) ==
    adjust_selection_cfg(s, fix_aspect_ratio, sd_base_size, sd_max_size)

\* get_selection_image: the image of the rectangle, by its dimensions
get_selection_image(s) == <<s.width, s.height>>

\* get_mask_image: None unless the active node is a paint or file layer
get_mask_image(s) ==
    IF docs[s.node[1]].layers[s.node[2]].type \notin {"paintlayer", "filelayer"}
    THEN None
    ELSE <<s.width, s.height>>

\* img_inserter: the variables the closure `insert` holds
img_inserter(x, y, width, height, s) ==
    [x |-> x, y |-> y, width |-> width, height |-> height,
     has_selection |-> s.selection # None]

\* (variant: insert reads the live attributes of self, as insert_img did)
ClosureVarsLive(c, s) ==
    [c EXCEPT !.x = s.x, !.y = s.y, !.width = s.width, !.height = s.height]

\* `nonlocal x, y, width, height, has_selection`: insert works on the closure's
\* variables, not on the attributes of self
ClosureVars(c, s) == c

\* (variant: rescale only when both dimensions differ)
NeedsRescaleBoth(c, image) ==
    c.has_selection /\ (image.w # c.width /\ image.h # c.height)

\* the rescale test of insert
NeedsRescale(c, image) ==
    c.has_selection /\ (image.w # c.width \/ image.h # c.height)

\* image.scaled(width, height): default aspect mode ignores the aspect ratio
scaled(image, width, height) == [w |-> width, h |-> height]

\* the canvas test of insert
LargerThanCanvas(image, d) == image.w > d.width \/ image.h > d.height

\* the closure's rectangle after the canvas branch of insert
GrownRect(c, image, d) ==
    LET c1 == IF image.w > d.width THEN [c EXCEPT !.x = 0, !.width = image.w] ELSE c
    IN IF image.h > d.height THEN [c1 EXCEPT !.y = 0, !.height = image.h] ELSE c1

\* (variant: the canvas is resized to the image's size)
GrownCanvasToImage(image, d) == [d EXCEPT !.width = image.w, !.height = image.h]

\* doc.resizeImage(0, 0, new_width, new_height) of insert
GrownCanvas(image, d) ==
    [d EXCEPT !.width = IF image.w > d.width THEN image.w ELSE d.width,
              !.height = IF image.h > d.height THEN image.h ELSE d.height]

\* layer.pixelData(x, y, width, height).size()
ExpectedSize(d, c) == c.width * c.height * BytesPerPixel(d)

\* the assertion guarding setPixelData
SizeAssertion(expected, size) == expected = size

\* (variant: the document's active node is written)
WriteTargetActive(d, layer) == d.active

\* the layer insert writes to: the one create_layer returned
WriteTarget(d, layer) == layer

\* layer.setPixelData(ba, x, y, width, height)
setPixelData(d, layer) == [d EXCEPT !.layers[layer].px = @ + 1]

\* One call of insert(layer_name, enc). st holds the closure variables c, the
\* documents D, the layers returned so far, the log of inserts and the error.
insert(st, layer_name, enc) ==
    LET image0 == b64_to_img(enc)
        c == ClosureVars(st.c, self)
        image == IF NeedsRescale(c, image0) THEN scaled(image0, c.width, c.height)
                 ELSE image0
        noev == [name |-> layer_name, enc |-> image0, image |-> image,
                 x |-> c.x, y |-> c.y, width |-> c.width, height |-> c.height,
                 entry |-> [x |-> c.x, y |-> c.y, width |-> c.width, height |-> c.height],
                 doc |-> self.doc, layer |-> 0, target |-> 0, wrote |-> FALSE,
                 grew |-> FALSE, canvas0 |-> <<0, 0>>, canvas |-> <<0, 0>>, nlayers |-> 0]
    IN IF NoDocument(self.doc)
       THEN [st EXCEPT !.err = "AttributeError", !.log = Append(@, noev)]
       ELSE
         LET d == st.D[self.doc]
             over == LargerThanCanvas(image, d)
             c1 == IF over THEN GrownRect(c, image, d) ELSE c
             d1 == IF over THEN GrownCanvas(image, d) ELSE d
             d2 == create_layer(d1, layer_name)
             layer == Len(d2.layers)
             ok == SizeAssertion(ExpectedSize(d2, c1), img_to_ba(image))
             target == WriteTarget(d2, layer)
             d3 == IF ok THEN setPixelData(d2, target) ELSE d2
             e == [noev EXCEPT !.x = c1.x, !.y = c1.y, !.width = c1.width,
                               !.height = c1.height, !.layer = layer,
                               !.target = IF ok THEN target ELSE 0,
                               !.wrote = ok, !.grew = over,
                               !.canvas0 = <<d.width, d.height>>,
                               !.canvas = <<d1.width, d1.height>>,
                               !.nlayers = Len(d.layers)]
         IN [c |-> c1, D |-> [st.D EXCEPT ![self.doc] = d3],
             layers |-> IF ok THEN Append(st.layers, <<self.doc, layer>>) ELSE st.layers,
             log |-> Append(st.log, e),
             err |-> IF ok THEN "" ELSE "AssertionError"]

\* f"{prefix} {i + 1}" for the output at (0-based) index i, here 1-based
LayerName(prefix, i) == <<prefix, i>>

layer_name_prefix(mode) ==
    IF mode = 1 THEN "inpaint" ELSE IF mode = 2 THEN "sd upscale" ELSE "img2img"

\* [insert(f"{prefix} {i + 1}", output) for i, output in enumerate(outputs)]:
\* the comprehension stops at the first insert that raises
RECURSIVE InsertOutputs(_, _, _, _)
InsertOutputs(st, prefix, outputs, i) ==
    IF i > Len(outputs) \/ st.err # "" THEN st
    ELSE InsertOutputs(insert(st, LayerName(prefix, i), outputs[i]), prefix, outputs, i + 1)

\* transparency_mask_inserter: the selection duplicated for add_mask
transparency_mask_inserter(s) == s.selection

\* The request a dispatch leaves with the client: the callback's closures (c,
\* orig_selection, mode) and the arguments sent. frozen, doc, snap and
\* live_selection record the rectangle, the document, the document's state and
\* the host's selection at dispatch.
Request(id, op, mode, s, method, mask_image) ==
    [id |-> id, op |-> op, mode |-> mode,
     c |-> img_inserter(s.x, s.y, s.width, s.height, s),
     orig_selection |-> IF op = "upscale" THEN None ELSE transparency_mask_inserter(s),
     sent |-> [method |-> method, x |-> s.x, y |-> s.y,
               width |-> s.width, height |-> s.height,
               has_selection |-> s.selection # None, mask_image |-> mask_image],
     frozen |-> [x |-> s.x, y |-> s.y, width |-> s.width, height |-> s.height],
     doc |-> s.doc, snap |-> docs[s.doc], live_selection |-> docs[s.doc].selection]

\* What a dispatch did to prepare the request, in the order of the code: the
\* host calls made (steps), the node that was active, and whether that node was
\* visible when the selection image was taken.
Prepared(steps, node, sel_node_visible) ==
    [steps |-> steps, node |-> node, sel_node_visible |-> sel_node_visible]

\* position of the first occurrence of a step, 0 when it did not happen
Index(steps, name) ==
    IF \E i \in 1..Len(steps) : steps[i] = name
    THEN CHOOSE i \in 1..Len(steps) :
             steps[i] = name /\ \A j \in 1..(i - 1) : steps[j] # name
    ELSE 0

\* the node's visibility when the step took place, visible0 being the
\* visibility before the first step
VisibleAt(steps, name, visible0) ==
    visible0 /\ ~(Index(steps, "setVisible") # 0
                  /\ Index(steps, "setVisible") < Index(steps, name))

NodeVisible(D, node) == D[node[1]].layers[node[2]].visible

apply_txt2img(s, id) ==
    [req |-> Request(id, "txt2img", 0, s, "post_txt2img", None)
             @@ Prepared(<<"post">>, s.node, FALSE),
     D |-> docs]

\* the mask layer is hidden before the selection image is taken
HidesNode(mode, mask_image) == mode = 1 /\ mask_image # None

\* the host calls of apply_img2img up to the request, in the order of the code
Img2imgSteps(mode, mask_image) ==
    <<"mask_image">>
    \o (IF HidesNode(mode, mask_image) THEN <<"setVisible", "refreshProjection">> ELSE <<>>)
    \o <<"selection_image", "post">>

apply_img2img(s, id, mode) ==
    LET mask_image == get_mask_image(s)
        steps == Img2imgSteps(mode, mask_image)
        D == IF Index(steps, "setVisible") # 0
             THEN [docs EXCEPT ![s.node[1]].layers[s.node[2]].visible = FALSE]
             ELSE docs
    IN [req |-> Request(id, IF mode = 1 THEN "inpaint" ELSE "img2img", mode, s,
                        IF mode = 1 THEN "post_inpaint" ELSE "post_img2img", mask_image)
                @@ Prepared(steps, s.node,
                            VisibleAt(steps, "selection_image", NodeVisible(docs, s.node))),
        D |-> D]

apply_simple_upscale(s, id) ==
    [req |-> Request(id, "upscale", 0, s, "post_upscale", None)
             @@ Prepared(<<"selection_image", "post">>, s.node, NodeVisible(docs, s.node)),
     D |-> docs]

\* adjust_selection is called by every action but action_simple_upscale
Adjusts(op) == op # "upscale"

\* The body shared by action_txt2img, action_img2img, action_inpaint and
\* action_simple_upscale: emit STATE_WAIT, update_selection, return without a
\* document, adjust_selection, apply_*.
Invoke(op) ==
    /\ nacts < MaxActs
    /\ nacts' = nacts + 1
    /\ \E fix_aspect_ratio \in BOOLEAN :
       LET u == update_selection(self)
           s == IF Adjusts(op) THEN adjust_selection(u.self, fix_aspect_ratio) ELSE u.self
           a == CASE op = "txt2img" -> apply_txt2img(s, nacts + 1)
                  [] op = "img2img" -> apply_img2img(s, nacts + 1, 0)
                  [] op = "inpaint" -> apply_img2img(s, nacts + 1, 1)
                  [] op = "upscale" -> apply_simple_upscale(s, nacts + 1)
       IN IF NoDocument(u.self.doc) \/ u.err # ""
          THEN /\ self' = u.self
               /\ ev' = Event("action", op, <<STATE_WAIT>> \o u.emitted, u.err, <<>>,
                              NoReq, fix_aspect_ratio)
               /\ UNCHANGED <<docs, pending>>
          ELSE /\ self' = s
               /\ docs' = a.D
               /\ pending' = pending \cup {a.req}
               /\ ev' = Event("action", op, <<STATE_WAIT>>, "", <<>>, a.req,
                              fix_aspect_ratio)
    /\ UNCHANGED <<activeDoc, timers, nuser, nimg>>

action_txt2img == Invoke("txt2img")
action_img2img == Invoke("img2img")
action_inpaint == Invoke("inpaint")
action_simple_upscale == Invoke("upscale")

\* (variant: the guard of action_sd_upscale is taken out)
Enabled == FALSE

\* `assert False, "disabled"`, the first statement of action_sd_upscale
Disabled == TRUE

\* action_sd_upscale: the assertion fails before anything else is done. The
\* statements after it (STATE_WAIT, update_selection, apply_img2img(mode=2), with
\* no test of self.doc) never run.
action_sd_upscale ==
    /\ nacts < MaxActs
    /\ nacts' = nacts + 1
    /\ IF Disabled
       THEN /\ ev' = Event("action", "sd upscale", <<>>, "AssertionError", <<>>, NoReq, FALSE)
            /\ UNCHANGED <<docs, self, pending>>
       ELSE LET u == update_selection(self)
                a == apply_img2img(u.self, nacts + 1, 2)
            IN IF u.err # "" \/ NoDocument(u.self.doc)
               THEN /\ self' = u.self
                    /\ ev' = Event("action", "sd upscale", <<STATE_WAIT>> \o u.emitted,
                                   IF u.err # "" THEN u.err ELSE "AttributeError",
                                   <<>>, NoReq, FALSE)
                    /\ UNCHANGED <<docs, pending>>
               ELSE /\ self' = u.self
                    /\ docs' = a.D
                    /\ pending' = pending \cup {a.req}
                    /\ ev' = Event("action", "sd upscale", <<STATE_WAIT>>, "", <<>>, a.req,
                                   FALSE)
    /\ UNCHANGED <<activeDoc, timers, nuser, nimg>>

\* the status a callback emits when it completes
SuccessStatus(r) ==
    CASE r.op = "txt2img" -> STATE_TXT2IMG
      [] r.op = "img2img" -> IF r.mode = 0 THEN STATE_IMG2IMG ELSE STATE_INPAINT
      [] r.op = "inpaint" -> STATE_INPAINT
      [] r.op = "upscale" -> STATE_UPSCALE

\* (variant: every callback calls mask_trigger)
TriggersMaskAnyOperation(r) == TRUE

\* mask_trigger(layers) is called by the txt2img callback and by the img2img
\* callback in mode 0
TriggersMask(r) == r.op = "txt2img" \/ (r.op = "img2img" /\ r.mode = 0)

MaskTimer(r, layers) ==
    [kind |-> "add_mask", op |-> r.op, id |-> r.id, layers |-> layers,
     orig_selection |-> r.orig_selection]

\* trigger_mask_adding(layers): the timers afterwards
trigger_mask_adding(r, layers, create_mask_layer) ==
    IF create_mask_layer THEN Append(timers, MaskTimer(r, layers)) ELSE timers

\* The callback cb(response) of request r: txt2img, img2img/inpaint or upscale.
cb(r, response, create_mask_layer) ==
    IF response.isNone
    THEN /\ ev' = Event("callback", r.op, <<>>, "AssertionError", <<>>, r, create_mask_layer)
         /\ UNCHANGED <<docs, timers>>
    ELSE \E st \in {LET st0 == [c |-> r.c, D |-> docs, layers |-> <<>>, log |-> <<>>,
                                err |-> ""]
                     IN IF r.op = "upscale"
                        THEN insert(st0, <<"upscale", 0>>, response.outputs[1])
                        ELSE InsertOutputs(st0,
                                 IF r.op = "txt2img" THEN "txt2img"
                                 ELSE layer_name_prefix(r.mode),
                                 response.outputs, 1)} :
         \* self.doc.refreshProjection()
         \E err \in {IF st.err # "" THEN st.err
                     ELSE IF NoDocument(self.doc) THEN "AttributeError" ELSE ""} :
            /\ docs' = st.D
            /\ timers' = IF err = "" /\ TriggersMask(r)
                         THEN trigger_mask_adding(r, st.layers, create_mask_layer)
                         ELSE timers
            /\ ev' = Observation("callback", r.op,
                                 IF err = "" THEN <<SuccessStatus(r)>> ELSE <<>>,
                                 err, st.log, r, create_mask_layer, response)

\* (variant: a request answered with None is posted again)
AnsweredRetryingNone(r, response) == IF response.isNone THEN pending ELSE pending \ {r}

\* the requests waiting for an answer once r is answered: cb posts nothing
Answered(r, response) == pending \ {r}

\* The backend answers request r and the client calls its callback.
Callback ==
    \E r \in pending, response \in ResponsesUpTo(MaxImages - nimg),
       create_mask_layer \in BOOLEAN :
        /\ r.op = "upscale" /\ ~response.isNone => Len(response.outputs) = 1
        /\ nimg' = nimg + Len(response.outputs)
        /\ pending' = Answered(r, response)
        /\ cb(r, response, create_mask_layer)
        /\ UNCHANGED <<activeDoc, self, nacts, nuser>>

---------------------------------------------------------------------------
\* Host operations used by the mask timers

\* Document.setActiveNode(layer): a node of another document is not activated
setActiveNode(D, d, layer) ==
    IF layer[1] = d THEN [D EXCEPT ![d].active = layer[2]] ELSE D

\* Document.setSelection(selection)
setSelection(D, d, selection) == [D EXCEPT ![d].selection = selection]

\* app.action("add_new_transparency_mask").trigger(): the active node of the
\* active document gets a transparency mask made from that document's selection
add_new_transparency_mask(D) ==
    IF activeDoc = NoDoc THEN D
    ELSE [D EXCEPT ![activeDoc].layers[D[activeDoc].active].mask = D[activeDoc].selection]

\* the loop of add_mask over the layers of the response
RECURSIVE MaskLayers(_, _, _, _)
MaskLayers(D, layers, orig_selection, i) ==
    IF i > Len(layers) THEN D
    ELSE MaskLayers(
             add_new_transparency_mask(
                 setSelection(setActiveNode(D, self.doc, layers[i]), self.doc, orig_selection)),
             layers, orig_selection, i + 1)

\* add_mask(layers), fired by the timer trigger_mask_adding started
add_mask(t) ==
    IF NoDocument(self.doc)
    THEN /\ ev' = Event("add_mask", t.op, <<>>, "AttributeError", <<>>, t, FALSE)
         /\ UNCHANGED docs
    ELSE LET cur_selection == self.selection
             cur_layer == <<self.doc, docs[self.doc].active>>
             D1 == MaskLayers(docs, t.layers, t.orig_selection, 1)
         IN /\ docs' = setActiveNode(setSelection(D1, self.doc, cur_selection),
                                     self.doc, cur_layer)
            /\ ev' = Event("add_mask", t.op, <<>>, "", <<>>, t, FALSE)

\* A timer fires. Qt gives no order between timers of different delays.
RemoveAt(q, i) == [j \in 1..(Len(q) - 1) |-> IF j < i THEN q[j] ELSE q[j + 1]]

AddMaskTimer ==
    \E i \in 1..Len(timers) :
        /\ timers[i].kind = "add_mask"
        /\ timers' = RemoveAt(timers, i)
        /\ add_mask(timers[i])
        /\ UNCHANGED <<activeDoc, self, pending, nacts, nuser, nimg>>

---------------------------------------------------------------------------
\* Script, old revision (src/krita_plugin/krita_diff/script.py). An action emits
\* STATE_WAIT and starts a timer; the timer's callback does the whole operation,
\* the request to the backend included (the client blocks until the response).

\* update_selection: self.selection stays the Selection object, even an empty
\* one; there are no colour assertions
Old_update_selection(s) ==
    IF NoDocument(activeDoc)
    THEN [self |-> [s EXCEPT !.doc = activeDoc], emitted |-> <<ERR_NO_DOCUMENT>>]
    ELSE LET d == docs[activeDoc]
             r == SelectionRect(d.selection, d)
         IN [self |-> [doc |-> activeDoc, node |-> <<activeDoc, d.active>>,
                       selection |-> d.selection,
                       x |-> r[1], y |-> r[2], width |-> r[3], height |-> r[4]],
             emitted |-> <<>>]

\* adjust_selection: reading a never-assigned self.selection, or the size of a
\* document that is None, raises AttributeError
Old_adjust_selection(s, fix_aspect_ratio) ==
    IF s.selection = UnsetRef THEN [self |-> s, err |-> "AttributeError"]
    ELSE IF ~(s.selection # None /\ fix_aspect_ratio) THEN [self |-> s, err |-> ""]
    ELSE IF NoDocument(s.doc) THEN [self |-> s, err |-> "AttributeError"]
    ELSE LET r == find_optimal_selection_region(sd_base_size, sd_max_size,
                      s.x, s.y, s.width, s.height,
                      docs[s.doc].width, docs[s.doc].height)
         IN [self |-> [s EXCEPT !.x = r[1], !.y = r[2], !.width = r[3], !.height = r[4]],
             err |-> ""]

\* the arguments of the blocking client call
Old_Request(id, op, mode, s, method, mask_image) ==
    [id |-> id, op |-> op, mode |-> mode,
     sent |-> [method |-> method, x |-> s.x, y |-> s.y,
               width |-> s.width, height |-> s.height,
               has_selection |-> s.selection # None, mask_image |-> mask_image],
     doc |-> s.doc,
     live_selection |-> IF NoDocument(s.doc) THEN None ELSE docs[s.doc].selection]

\* insert_img(layer_name, enc): the layer is written at the live self.x, self.y,
\* self.width, self.height, with no check of the buffer's size
insert_img(st, s, layer_name, enc) ==
    LET image == b64_to_img(enc)
        noev == [name |-> layer_name, enc |-> image, image |-> image,
                 x |-> s.x, y |-> s.y, width |-> s.width, height |-> s.height,
                 doc |-> s.doc, layer |-> 0, target |-> 0, wrote |-> FALSE,
                 grew |-> FALSE, canvas0 |-> <<0, 0>>, canvas |-> <<0, 0>>, nlayers |-> 0]
    IN IF NoDocument(s.doc)
       THEN [st EXCEPT !.err = "AttributeError", !.log = Append(@, noev)]
       ELSE LET d == st.D[s.doc]
                d2 == create_layer(d, layer_name)
                layer == Len(d2.layers)
            IN [st EXCEPT !.D = [st.D EXCEPT ![s.doc] = setPixelData(d2, layer)],
                          !.log = Append(@, [noev EXCEPT !.layer = layer, !.target = layer,
                                                !.wrote = TRUE,
                                                !.canvas0 = <<d.width, d.height>>,
                                                !.canvas = <<d.width, d.height>>,
                                                !.nlayers = Len(d.layers)])]

RECURSIVE Old_InsertOutputs(_, _, _, _, _)
Old_InsertOutputs(st, s, prefix, outputs, i) ==
    IF i > Len(outputs) \/ st.err # "" THEN st
    ELSE Old_InsertOutputs(insert_img(st, s, LayerName(prefix, i), outputs[i]),
                           s, prefix, outputs, i + 1)

\* From the response on: the assertion, the inserts, refreshProjection
Old_Receive(st, s, name, response, single) ==
    IF response.isNone THEN [st EXCEPT !.err = "AssertionError"]
    ELSE LET st1 == IF single THEN insert_img(st, s, <<name, 0>>, response.outputs[1])
                    ELSE Old_InsertOutputs(st, s, name, response.outputs, 1)
         IN IF st1.err = "" /\ NoDocument(s.doc)
            THEN [st1 EXCEPT !.err = "AttributeError"]
            ELSE st1

Old_apply_txt2img(st, s, id, response) ==
    Old_Receive([st EXCEPT !.req = Old_Request(id, "txt2img", 0, s, "post_txt2img", None)
                                   @@ Prepared(<<"post">>, s.node, FALSE)],
                s, "txt2img", response, FALSE)

\* (variant: the images are taken before the node is hidden)
Old_Img2imgStepsHideLast(mode) ==
    <<"selection_image", "mask_image">>
    \o (IF mode = 1 THEN <<"setVisible", "refreshProjection">> ELSE <<>>)
    \o <<"post">>

\* the host calls of apply_img2img up to the request, in the order of the code:
\* the selection_image and mask_image properties are read as the arguments of
\* the client call
Old_Img2imgSteps(mode) ==
    (IF mode = 1 THEN <<"setVisible", "refreshProjection">> ELSE <<>>)
    \o <<"selection_image", "mask_image", "post">>

\* mode 1 hides self.node, whatever its type, and refreshes the projection; the
\* selection_image and mask_image properties read self.doc and self.node
Old_apply_img2img(st, s, id, mode, response) ==
    IF mode = 1 /\ s.node = UnsetRef THEN [st EXCEPT !.err = "AttributeError"]
    ELSE LET steps == Old_Img2imgSteps(mode)
             D == IF Index(steps, "setVisible") # 0
                  THEN [st.D EXCEPT ![s.node[1]].layers[s.node[2]].visible = FALSE]
                  ELSE st.D
         IN IF NoDocument(s.doc) THEN [st EXCEPT !.D = D, !.err = "AttributeError"]
            ELSE Old_Receive(
                     [st EXCEPT !.D = D,
                                !.req = Old_Request(id, IF mode = 1 THEN "inpaint" ELSE "img2img",
                                            mode, s,
                                            IF mode = 1 THEN "post_inpaint" ELSE "post_img2img",
                                            <<s.width, s.height>>)
                                        @@ Prepared(steps, s.node,
                                               VisibleAt(steps, "selection_image",
                                                         NodeVisible(st.D, s.node)))],
                     s, layer_name_prefix(mode), response, FALSE)

Old_apply_simple_upscale(st, s, id, response) ==
    IF NoDocument(s.doc) THEN [st EXCEPT !.err = "AttributeError"]
    ELSE Old_Receive([st EXCEPT !.req = Old_Request(id, "upscale", 0, s, "post_upscale", None)
                                        @@ Prepared(<<"selection_image", "post">>, s.node,
                                                    NodeVisible(st.D, s.node))],
                     s, "upscale", response, TRUE)

\* create_mask_layer_workaround follows apply_* in the txt2img and img2img callbacks
Old_TriggersMask(op) == op \in {"txt2img", "img2img"}

\* the status the timer callback emits last
Old_SuccessStatus(op) ==
    CASE op = "txt2img" -> STATE_TXT2IMG
      [] op = "img2img" -> STATE_IMG2IMG
      [] op = "inpaint" -> STATE_INPAINT
      [] op = "upscale" -> STATE_UPSCALE

\* action_txt2img, action_img2img, action_inpaint, action_simple_upscale:
\* emit STATE_WAIT and QTimer.singleShot(1, cb)
Old_Invoke(op) ==
    /\ nacts < MaxActs
    /\ nacts' = nacts + 1
    /\ timers' = Append(timers, [kind |-> "cb", op |-> op, id |-> nacts + 1,
                                 layers |-> <<>>, orig_selection |-> None])
    /\ ev' = Event("action", op, <<STATE_WAIT>>, "", <<>>, NoReq, FALSE)
    /\ UNCHANGED <<docs, activeDoc, self, pending, nuser, nimg>>

Old_action_txt2img == Old_Invoke("txt2img")
Old_action_img2img == Old_Invoke("img2img")
Old_action_inpaint == Old_Invoke("inpaint")
Old_action_simple_upscale == Old_Invoke("upscale")

\* action_sd_upscale: `assert False, "disabled"` comes first here too; nothing
\* after it runs (no status, no timer: the old action_sd_upscale starts none)
Old_action_sd_upscale ==
    /\ nacts < MaxActs
    /\ nacts' = nacts + 1
    /\ ev' = Event("action", "sd upscale", <<>>, "AssertionError", <<>>, NoReq, FALSE)
    /\ UNCHANGED <<docs, activeDoc, self, pending, timers, nuser, nimg>>

\* The timer callback cb() of an action: update_config, update_selection,
\* adjust_selection (not for upscale), apply_*, create_mask_layer_workaround
\* (txt2img and img2img), emit the status. An exception ends it.
Old_cb(t, rest, response, fix_aspect_ratio, create_mask_layer) ==
    \E u \in {Old_update_selection(self)} :
    \E a \in {IF Adjusts(t.op) THEN Old_adjust_selection(u.self, fix_aspect_ratio)
              ELSE [self |-> u.self, err |-> ""]} :
    \E st \in {LET st0 == [D |-> docs, req |-> NoReq, log |-> <<>>, err |-> ""]
                    s == a.self
                IN IF a.err # "" THEN [st0 EXCEPT !.err = a.err]
                   ELSE CASE t.op = "txt2img" -> Old_apply_txt2img(st0, s, t.id, response)
                          [] t.op = "img2img" -> Old_apply_img2img(st0, s, t.id, 0, response)
                          [] t.op = "inpaint" -> Old_apply_img2img(st0, s, t.id, 1, response)
                          [] t.op = "upscale" -> Old_apply_simple_upscale(st0, s, t.id, response)} :
       /\ fix_aspect_ratio => u.self.selection \notin {None, UnsetRef}
       /\ st.req = NoReq => response.isNone
       /\ create_mask_layer => st.err = ""
       /\ nimg' = nimg + (IF st.req = NoReq \/ response.isNone THEN 0
                          ELSE Len(response.outputs))
       /\ self' = a.self
       /\ docs' = st.D
       /\ timers' = IF create_mask_layer
                    THEN Append(rest, [kind |-> "create_mask_layer_internal", op |-> t.op,
                                       id |-> t.id, layers |-> <<>>, orig_selection |-> None])
                    ELSE rest
       /\ ev' = Observation("cb", t.op,
                            u.emitted \o (IF st.err = "" THEN <<Old_SuccessStatus(t.op)>>
                                          ELSE <<>>),
                            st.err, st.log, st.req, fix_aspect_ratio,
                            IF st.req = NoReq THEN NoResponse ELSE response)

Old_Timer ==
    \E i \in 1..Len(timers), fix_aspect_ratio \in BOOLEAN,
       create_mask_layer \in BOOLEAN, response \in ResponsesUpTo(MaxImages - nimg) :
        /\ timers[i].kind = "cb"
        /\ fix_aspect_ratio => Adjusts(timers[i].op)
        /\ create_mask_layer => Old_TriggersMask(timers[i].op) /\ ~response.isNone
        /\ timers[i].op = "upscale" /\ ~response.isNone => Len(response.outputs) = 1
        /\ Old_cb(timers[i], RemoveAt(timers, i), response, fix_aspect_ratio, create_mask_layer)
        /\ UNCHANGED <<activeDoc, pending, nacts, nuser>>

\* create_mask_layer_internal, fired by the timer of create_mask_layer_workaround
create_mask_layer_internal ==
    IF self.selection = None THEN
        /\ ev' = Event("create_mask_layer_internal", "", <<>>, "", <<>>, NoReq, FALSE)
        /\ UNCHANGED docs
    ELSE IF NoDocument(self.doc) THEN
        /\ docs' = add_new_transparency_mask(docs)
        /\ ev' = Event("create_mask_layer_internal", "", <<>>, "AttributeError", <<>>,
                       NoReq, FALSE)
    ELSE
        /\ docs' = setSelection(add_new_transparency_mask(docs), self.doc, self.selection)
        /\ ev' = Event("create_mask_layer_internal", "", <<>>, "", <<>>, NoReq, FALSE)

Old_MaskTimer ==
    \E i \in 1..Len(timers) :
        /\ timers[i].kind = "create_mask_layer_internal"
        /\ timers' = RemoveAt(timers, i)
        /\ create_mask_layer_internal
        /\ UNCHANGED <<activeDoc, self, pending, nacts, nuser, nimg>>

---------------------------------------------------------------------------
\* The user, between the plugin's handlers

\* The user's steps count while a handler of the plugin can still run.
UserCanAct ==
    /\ nuser < MaxUser
    /\ nacts < MaxActs \/ pending # {} \/ timers # <<>>

UserSelect ==
    /\ UserCanAct
    /\ activeDoc # NoDoc
    /\ \E sel \in Selections(docs[activeDoc]) :
        /\ sel # docs[activeDoc].selection
        /\ docs' = [docs EXCEPT ![activeDoc].selection = sel]
    /\ nuser' = nuser + 1
    /\ ev' = Event("user", "select", <<>>, "", <<>>, NoReq, FALSE)
    /\ UNCHANGED <<activeDoc, self, pending, timers, nacts, nimg>>

\* the user opens, switches to or closes a document
UserSwitchDocument ==
    /\ UserCanAct
    /\ \E d \in DocIds \cup {NoDoc} :
        /\ d # activeDoc
        /\ activeDoc' = d
    /\ nuser' = nuser + 1
    /\ ev' = Event("user", "document", <<>>, "", <<>>, NoReq, FALSE)
    /\ UNCHANGED <<docs, self, pending, timers, nacts, nimg>>

\* colour formats a document can be converted to
Formats == {<<"U8", "RGBA">>, <<"U16", "RGBA">>, <<"U8", "GRAYA">>}

UserConvertColorSpace ==
    /\ UserCanAct
    /\ activeDoc # NoDoc
    /\ \E f \in Formats :
        /\ f # <<docs[activeDoc].colorDepth, docs[activeDoc].colorModel>>
        /\ docs' = [docs EXCEPT ![activeDoc].colorDepth = f[1],
                                ![activeDoc].colorModel = f[2]]
    /\ nuser' = nuser + 1
    /\ ev' = Event("user", "convert", <<>>, "", <<>>, NoReq, FALSE)
    /\ UNCHANGED <<activeDoc, self, pending, timers, nacts, nimg>>

UserActivateNode ==
    /\ UserCanAct
    /\ activeDoc # NoDoc
    /\ \E i \in 1..Len(docs[activeDoc].layers) :
        /\ i # docs[activeDoc].active
        /\ docs' = [docs EXCEPT ![activeDoc].active = i]
    /\ nuser' = nuser + 1
    /\ ev' = Event("user", "node", <<>>, "", <<>>, NoReq, FALSE)
    /\ UNCHANGED <<activeDoc, self, pending, timers, nacts, nimg>>


---------------------------------------------------------------------------
\* Script.__init__ assigns none of doc, node, selection, x, y, width, height
NewScript ==
    [doc |-> Unset, node |-> UnsetRef, selection |-> UnsetRef,
     x |-> Unset, y |-> Unset, width |-> Unset, height |-> Unset]

\* Two documents exist: a square RGBA/U8 one whose active node is a paint layer
\* above a group layer, and a narrower 16-bit one.
Init ==
    /\ docs = [d \in DocIds |->
                 IF d = 1
                 THEN [Document(MaxDim, MaxDim, "U8", "RGBA", "grouplayer") EXCEPT
                          !.layers = Append(@, Layer(<<"Paint", 0>>, "paintlayer")),
                          !.active = 2]
                 ELSE Document(1, MaxDim, "U16", "RGBA", "paintlayer")]
    /\ activeDoc = 1
    /\ self = NewScript
    /\ pending = {}
    /\ timers = <<>>
    /\ ev = Event("init", "", <<>>, "", <<>>, NoReq, FALSE)
    /\ nacts = 0
    /\ nuser = 0
    /\ nimg = 0

Next ==
    \/ action_txt2img
    \/ action_img2img
    \/ action_inpaint
    \/ action_simple_upscale
    \/ action_sd_upscale
    \/ Callback
    \/ AddMaskTimer
    \/ UserSelect
    \/ UserSwitchDocument
    \/ UserActivateNode
    \/ UserConvertColorSpace

Spec == Init /\ [][Next]_vars

NextOld ==
    \/ Old_action_txt2img
    \/ Old_action_img2img
    \/ Old_action_inpaint
    \/ Old_action_simple_upscale
    \/ Old_action_sd_upscale
    \/ Old_Timer
    \/ Old_MaskTimer
    \/ UserSelect
    \/ UserSwitchDocument
    \/ UserActivateNode
    \/ UserConvertColorSpace

SpecOld == Init /\ [][NextOld]_vars

---------------------------------------------------------------------------
\* update_selection and adjust_selection on their own, for every canvas up to
\* MaxCanvas x MaxCanvas, every selection rectangle inside it and every pair of
\* sizes base_size <= max_size <= min(canvas width, canvas height). The sizes
\* configured are kept in ev.req, the phase in nacts.

Rectangles(w, h) ==
    {r \in (0..(w - 1)) \X (0..(h - 1)) \X (1..w) \X (1..h) :
        SelX(r) + SelW(r) <= w /\ SelY(r) + SelH(r) <= h}

InitAdjust ==
    /\ \E w \in 1..MaxCanvas, h \in 1..MaxCanvas :
       \E sel \in Rectangles(w, h) :
           docs = [d \in DocIds |->
                     [Document(w, h, "U8", "RGBA", "paintlayer") EXCEPT !.selection = sel]]
    /\ activeDoc = 1
    /\ self = NewScript
    /\ pending = {}
    /\ timers = <<>>
    /\ \E max_size \in 1..Min(docs[1].width, docs[1].height) :
       \E base_size \in 1..max_size :
           ev = Event("init", "", <<>>, "", <<>>,
                      [base_size |-> base_size, max_size |-> max_size], FALSE)
    /\ nacts = 0
    /\ nuser = 0
    /\ nimg = 0

do_update_selection ==
    /\ nacts = 0
    /\ nacts' = 1
    /\ self' = update_selection(self).self
    /\ ev' = [ev EXCEPT !.kind = "update_selection"]
    /\ UNCHANGED <<docs, activeDoc, pending, timers, nuser, nimg>>

do_adjust_selection ==
    /\ nacts = 1
    /\ nacts' = 2
    /\ \E fix_aspect_ratio \in BOOLEAN :
        /\ self' = adjust_selection_cfg(self, fix_aspect_ratio,
                                        ev.req.base_size, ev.req.max_size)
        /\ ev' = [ev EXCEPT !.kind = "adjust_selection", !.opt = fix_aspect_ratio]
    /\ UNCHANGED <<docs, activeDoc, pending, timers, nuser, nimg>>

NextAdjust ==
    \/ do_update_selection
    \/ do_adjust_selection

SpecAdjust == InitAdjust /\ [][NextAdjust]_vars

---------------------------------------------------------------------------
\* Properties

Emitted(status) == \E i \in 1..Len(ev.emitted) : ev.emitted[i] = status

\* the last step was a callback of the new revision's client
IsCallback == ev.kind = "callback"

\* the last step dispatched a request to the backend
Dispatched == ev.kind \in {"action", "cb"} /\ ev.req # NoReq

RectOf(e) == [x |-> e.x, y |-> e.y, width |-> e.width, height |-> e.height]

\* the image exceeded the canvas insert found, in width / in height
OverW(e) == e.image.w > e.canvas0[1]
OverH(e) == e.image.h > e.canvas0[2]

\* a selection was active when request r was dispatched
SelectionActive(r) == ~is_not_selected(r.live_selection)

\* the layers the last step created
Created == Cardinality({i \in 1..Len(ev.inserts) : ev.inserts[i].layer # 0})

\* '<prefix> i' for the i-th output of a txt2img, img2img or inpaint response,
\* 'upscale' for the output of an upscale
ExpectedName(op, i) == IF op = "upscale" THEN <<"upscale", 0>> ELSE <<op, i>>

(* C1, as stated: every image of a response is written at the rectangle     *)
(* (x, y, width, height) that img_inserter captured at dispatch, whatever   *)
(* happened to the live selection and to Script.x/y/width/height since.     *)
C1_InsertedAtCapturedRect ==
    IsCallback =>
        \A i \in 1..Len(ev.inserts) :
            ev.inserts[i].wrote => RectOf(ev.inserts[i]) = ev.req.frozen

(* C1, amended: on each dimension on which no image of the response, up to  *)
(* and including the one written, exceeded the canvas, the offset and size  *)
(* of the write are those captured at dispatch.                             *)
C1_CapturedRectUnlessGrown ==
    IsCallback =>
        \A i \in 1..Len(ev.inserts) :
            LET e == ev.inserts[i] IN
            e.wrote =>
                /\ (\A j \in 1..i : ~OverW(ev.inserts[j]))
                       => e.x = ev.req.frozen.x /\ e.width = ev.req.frozen.width
                /\ (\A j \in 1..i : ~OverH(ev.inserts[j]))
                       => e.y = ev.req.frozen.y /\ e.height = ev.req.frozen.height

\* an image was written at the captured rectangle after Script's rectangle had
\* been overwritten with another one
C1_Witness ==
    /\ IsCallback
    /\ \E i \in 1..Len(ev.inserts) :
        /\ ev.inserts[i].wrote
        /\ RectOf(ev.inserts[i]) = ev.req.frozen
    /\ [x |-> self.x, y |-> self.y, width |-> self.width, height |-> self.height]
           # ev.req.frozen

(* C2: when an action runs its update_selection with no document open,      *)
(* ERR_NO_DOCUMENT is emitted and the invocation stops there: it dispatches *)
(* no request and creates no layer (either revision).                       *)
C2_NoDocumentAborts ==
    Emitted(ERR_NO_DOCUMENT) => ev.req = NoReq /\ ev.inserts = <<>>

(* C3: a callback given a None response fails with an assertion error,      *)
(* inserts nothing, and the document is as it was before the action was     *)
(* invoked (stated for an invocation that no other handler or user step     *)
(* accompanied).                                                            *)
C3_NullResponseLeavesDocument ==
    IsCallback /\ ev.response.isNone /\ nacts = 1 /\ nuser = 0 =>
        /\ ev.err = "AssertionError"
        /\ ev.inserts = <<>>
        /\ docs[ev.req.doc] = ev.req.snap

(* C4: a request dispatched when the document had no active selection (none,*)
(* or an empty Selection object) carries the full canvas as its rectangle   *)
(* and has_selection = false (either revision).                             *)
C4_NoSelectionFullCanvas ==
    Dispatched /\ is_not_selected(ev.req.live_selection) =>
        /\ ev.req.sent.x = 0 /\ ev.req.sent.y = 0
        /\ ev.req.sent.width = docs[ev.req.doc].width
        /\ ev.req.sent.height = docs[ev.req.doc].height
        /\ ev.req.sent.method # "post_upscale" => ~ev.req.sent.has_selection

(* C5: when insert handles an image wider or taller than the canvas, the    *)
(* canvas afterwards holds the image, each dimension that overflowed is     *)
(* inserted at offset 0 over the image's extent, and a dimension that did   *)
(* not overflow keeps the offset and size captured at dispatch.             *)
C5_CanvasGrowth ==
    IsCallback =>
        \A i \in 1..Len(ev.inserts) :
            LET e == ev.inserts[i] IN
            e.layer # 0 /\ (OverW(e) \/ OverH(e)) =>
                /\ e.canvas[1] >= e.image.w /\ e.canvas[2] >= e.image.h
                /\ OverW(e) => e.x = 0 /\ e.width = e.image.w
                /\ OverH(e) => e.y = 0 /\ e.height = e.image.h
                /\ ~OverW(e) => e.x = ev.req.frozen.x /\ e.width = ev.req.frozen.width
                /\ ~OverH(e) => e.y = ev.req.frozen.y /\ e.height = ev.req.frozen.height

\* no layer is written twice, and the layers the documents started with never
NoOverwrite ==
    \A d \in DocIds : \A k \in 1..Len(docs[d].layers) :
        /\ docs[d].layers[k].px <= 1
        /\ docs[d].layers[k].name[1] \in {"Background", "Paint"} => docs[d].layers[k].px = 0

\* what C6 says of each layer a callback created: it is new, on top of the
\* previous one, named after the operation and the output's index, and the only
\* layer the insert wrote to
LayerAsClaimed(i) ==
    LET e == ev.inserts[i] IN
    e.layer # 0 =>
        /\ e.layer = e.nlayers + 1
        /\ i > 1 => e.layer = ev.inserts[i - 1].layer + 1
        /\ e.name = ExpectedName(ev.req.op, i)
        /\ docs[e.doc].layers[e.layer].name = e.name
        /\ e.wrote => e.target = e.layer /\ docs[e.doc].layers[e.layer].px = 1

(* C6, as stated: a callback given a response with N outputs creates exactly*)
(* N layers, in response order, named '<prefix> 1'..'<prefix> N' (or        *)
(* 'upscale'), and writes pixels only to the layer the same insert created. *)
C6_ExactlyNLayers ==
    IsCallback /\ ~ev.response.isNone =>
        /\ Created = Len(ev.response.outputs)
        /\ NoOverwrite
        /\ \A i \in 1..Len(ev.inserts) : LayerAsClaimed(i)

(* C6, amended: the callback creates at most N layers, one per output in    *)
(* response order up to the first insert that fails, named as stated, and   *)
(* exactly N when it completes and emits its status; pixels are written     *)
(* only to the layer the same insert created.                               *)
C6_LayersPerOutput ==
    IsCallback /\ ~ev.response.isNone =>
        /\ Created <= Len(ev.response.outputs)
        /\ Emitted(SuccessStatus(ev.req)) => Created = Len(ev.response.outputs)
        /\ NoOverwrite
        /\ \A i \in 1..Len(ev.inserts) :
            /\ LayerAsClaimed(i)
            /\ ev.inserts[i].layer = 0 \/ ~ev.inserts[i].wrote => i = Len(ev.inserts)

\* a response with two outputs was inserted as two layers
C6_Witness ==
    /\ IsCallback
    /\ Len(ev.response.outputs) = 2
    /\ Created = 2
    /\ Emitted(SuccessStatus(ev.req))
    /\ ev.inserts[1].wrote /\ ev.inserts[2].wrote

(* C7: a callback given a response with an empty outputs list inserts       *)
(* nothing, raises no error and emits the operation's status.               *)
C7_EmptyOutputs ==
    IsCallback /\ ~ev.response.isNone /\ ev.response.outputs = <<>> =>
        /\ ev.inserts = <<>>
        /\ ev.err = ""
        /\ ev.emitted = <<SuccessStatus(ev.req)>>

(* C8: with a selection active at dispatch, the image insert works with has *)
(* exactly the width and height captured at dispatch (it is resized when    *)
(* the decoded image differs); with none, it is the decoded image as it is. *)
C8_FitToSelection ==
    IsCallback =>
        \A i \in 1..Len(ev.inserts) :
            LET e == ev.inserts[i] IN
            /\ SelectionActive(ev.req)
                   => e.image = [w |-> ev.req.frozen.width, h |-> ev.req.frozen.height]
            /\ ~SelectionActive(ev.req) => e.image = e.enc

\* an image of another size was resized to the selection and written
C8_Witness ==
    /\ IsCallback
    /\ SelectionActive(ev.req)
    /\ \E i \in 1..Len(ev.inserts) :
        /\ ev.inserts[i].enc # ev.inserts[i].image
        /\ ev.inserts[i].wrote

(* C9: whenever insert writes pixel data, the image's width and height are  *)
(* the width and height of the insertion rectangle (an insert whose buffer  *)
(* does not fit fails with an assertion error before it writes).            *)
C9_WriteMatchesDimensions ==
    IsCallback =>
        \A i \in 1..Len(ev.inserts) :
            LET e == ev.inserts[i] IN
            /\ e.wrote => e.image.w = e.width /\ e.image.h = e.height
            /\ e.layer # 0 /\ ~e.wrote => ev.err = "AssertionError"

(* C10: the rectangle sent and frozen is the one update_selection computed  *)
(* whenever fix_aspect_ratio is disabled or no selection is active, and     *)
(* always for the simple upscale.                                           *)
C10_AdjustOnlyWhenEnabled ==
    ev.kind = "action" /\ ev.req # NoReq =>
        LET r == ev.req
            u == SelectionRect(r.live_selection, docs[r.doc])
            rect == [x |-> u[1], y |-> u[2], width |-> u[3], height |-> u[4]]
            unadjusted == /\ r.frozen = rect
                          /\ <<r.sent.x, r.sent.y, r.sent.width, r.sent.height>> = u
        IN /\ ~ev.opt \/ ~SelectionActive(r) => unadjusted
           /\ r.op = "upscale" => unadjusted

\* with the option disabled a selection was sent as it is although the
\* adjustment would have changed it
C10_Witness ==
    /\ ev.kind = "action" /\ ev.req # NoReq
    /\ ~ev.opt
    /\ SelectionActive(ev.req)
    /\ ev.req.op # "upscale"
    /\ find_optimal_selection_region(sd_base_size, sd_max_size,
           self.x, self.y, self.width, self.height,
           docs[self.doc].width, docs[self.doc].height)
         # <<self.x, self.y, self.width, self.height>>

\* the layers the inserts of the last step returned
LayersOf(inserts) == [i \in 1..Len(inserts) |-> <<inserts[i].doc, inserts[i].layer>>]

\* the add_mask timers the request with this id has pending
MaskTimersOf(id) == {i \in 1..Len(timers) : timers[i].kind = "add_mask" /\ timers[i].id = id}

\* the layer exists in its document and its pixels are written
Written(layer) ==
    /\ layer[2] \in 1..Len(docs[layer[1]].layers)
    /\ docs[layer[1]].layers[layer[2]].px >= 1

(* C11: an add_mask timer is started only by a txt2img or img2img (mode 0)  *)
(* callback that read create_mask_layer enabled, never by inpaint or        *)
(* upscale; the timer holds every layer of the response, all created and    *)
(* written before it was started, hence before add_mask runs.               *)
C11_MaskOnlyAfterLayers ==
    /\ \A i \in 1..Len(timers) :
           timers[i].kind = "add_mask" =>
               /\ timers[i].op \in {"txt2img", "img2img"}
               /\ \A k \in 1..Len(timers[i].layers) : Written(timers[i].layers[k])
    /\ IsCallback =>
           \A i \in MaskTimersOf(ev.req.id) :
               /\ ev.opt
               /\ ev.req.op \in {"txt2img", "img2img"} /\ ev.req.mode = 0
               /\ timers[i].layers = LayersOf(ev.inserts)
               /\ Len(timers[i].layers) = Len(ev.response.outputs)
               /\ \A k \in 1..Len(ev.inserts) : ev.inserts[k].wrote
    /\ ev.kind = "add_mask" =>
           /\ ev.op \in {"txt2img", "img2img"}
           /\ \A k \in 1..Len(ev.req.layers) : Written(ev.req.layers[k])

\* add_mask ran for a response of two layers
C11_Witness ==
    /\ ev.kind = "add_mask" /\ ev.err = ""
    /\ Len(ev.req.layers) = 2

(* C12: the add_mask timer of a request holds the selection that was active *)
(* when the request was dispatched (not the adjusted rectangle), and after  *)
(* add_mask has run every layer of the response has a transparency mask     *)
(* made from that selection, whatever happened to the live selection and    *)
(* whichever actions ran in between.                                        *)
C12_MaskFromDispatchSelection ==
    /\ IsCallback =>
           \A i \in MaskTimersOf(ev.req.id) :
               timers[i].orig_selection = KeptSelection(ev.req.live_selection)
    /\ ev.kind = "add_mask" =>
           \A k \in 1..Len(ev.req.layers) :
               LET layer == ev.req.layers[k]
               IN docs[layer[1]].layers[layer[2]].mask = ev.req.orig_selection

(* C13: STATE_WAIT is the first status an invocation emits; an invocation   *)
(* that finds no document emits ERR_NO_DOCUMENT next and nothing else; and  *)
(* once the backend has delivered the response, the callback emits exactly  *)
(* one status, the operation's, after every layer of the response has been  *)
(* inserted (so that the status does not stay at WAIT).                     *)
C13_WaitThenTerminal ==
    /\ ev.kind = "action" =>
           /\ ev.emitted # <<>> /\ ev.emitted[1] = STATE_WAIT
           /\ ev.req # NoReq => ev.emitted = <<STATE_WAIT>>
           /\ NoDocument(self.doc) => ev.emitted = <<STATE_WAIT, ERR_NO_DOCUMENT>>
    /\ IsCallback =>
           /\ ev.emitted = <<SuccessStatus(ev.req)>>
           /\ Created = Len(ev.response.outputs)
           /\ \A i \in 1..Len(ev.inserts) : ev.inserts[i].wrote

\* an action is invoked while the active document is not U8/RGBA
UnsupportedFormat ==
    /\ activeDoc # NoDoc
    /\ docs[activeDoc].colorDepth # "U8" \/ docs[activeDoc].colorModel # "RGBA"

(* C14: an action that runs update_selection (every action but the disabled *)
(* action_sd_upscale), invoked on a document whose colour depth is not U8   *)
(* or whose colour model is not RGBA, fails with an assertion error of      *)
(* update_selection: it posts no request and leaves every document (its     *)
(* layers included) as it was.                                              *)
C14_UnsupportedFormatAborts ==
    [][nacts' = nacts + 1 /\ ev'.op # "sd upscale" /\ UnsupportedFormat =>
           /\ ev'.err = "AssertionError"
           /\ ev'.emitted = <<STATE_WAIT>>
           /\ ev'.req = NoReq
           /\ pending' = pending
           /\ docs' = docs
           /\ timers' = timers]_vars

\* an action was invoked on a document of an unsupported format while a
\* request of an earlier invocation was pending
C14_Witness ==
    /\ ev.kind = "action" /\ ev.err = "AssertionError"
    /\ UnsupportedFormat
    /\ pending # {}

\* the request at hand is an inpaint request made with a paint or file layer active
InpaintOnLayer(r) ==
    /\ r.op = "inpaint"
    /\ docs[r.node[1]].layers[r.node[2]].type \in {"paintlayer", "filelayer"}

(* C15, as stated: in inpaint mode with a paint or file layer active, the   *)
(* mask image is taken first, then the layer is hidden and the projection   *)
(* refreshed, then the selection image is taken, then the request is        *)
(* posted; the layer is still hidden when the invocation has ended.         *)
C15_InpaintOrder ==
    (Dispatched \/ IsCallback) /\ InpaintOnLayer(ev.req) =>
        /\ ev.req.steps = <<"mask_image", "setVisible", "refreshProjection",
                            "selection_image", "post">>
        /\ ~NodeVisible(docs, ev.req.node)

(* C15, amended: the layer is hidden and the projection refreshed before    *)
(* the selection image is taken (which therefore does not show the layer),  *)
(* the mask image is taken from the layer before the request is posted      *)
(* (before the layer is hidden in the new revision, after it in the old),   *)
(* and the layer is still hidden when the invocation has ended.             *)
C15_HiddenBeforeSelectionImage ==
    (Dispatched \/ IsCallback) /\ InpaintOnLayer(ev.req) =>
        LET at(name) == Index(ev.req.steps, name) IN
        /\ 0 < at("setVisible") /\ at("setVisible") < at("refreshProjection")
        /\ at("refreshProjection") < at("selection_image")
        /\ at("selection_image") < at("post")
        /\ 0 < at("mask_image") /\ at("mask_image") < at("post")
        /\ ev.req.sent.mask_image # None
        /\ ~ev.req.sel_node_visible
        /\ ~NodeVisible(docs, ev.req.node)

\* an inpaint invocation on the paint layer has ended with its layer inserted
C15_Witness ==
    /\ ev.kind \in {"cb", "callback"}
    /\ InpaintOnLayer(ev.req)
    /\ ev.err = "" /\ Len(ev.inserts) = 1 /\ ev.inserts[1].wrote

(* C16: a step posts at most one request, and only as the request of the   *)
(* action invocation the step is (its id is the invocation's number, which  *)
(* no earlier request carries); a callback posts none, and the request it   *)
(* answers, with None or otherwise, is not waiting for an answer again.     *)
C16_NoRetry ==
    [][/\ Cardinality(pending' \ pending) <= 1
       /\ \A r \in pending' \ pending :
              /\ nacts' = nacts + 1 /\ r.id = nacts'
              /\ ev'.kind = "action" /\ ev'.req = r
       /\ ev'.kind = "callback" =>
              /\ pending' \subseteq pending
              /\ \A r \in pending' : r.id # ev'.req.id]_vars

\* a request was answered with None while another one was waiting
C16_Witness ==
    /\ IsCallback /\ ev.response.isNone
    /\ pending # {}
    /\ \A r \in pending : r.id # ev.req.id

\* the last step was an invocation of action_sd_upscale
SdUpscaleInvoked == ev.kind = "action" /\ ev.op = "sd upscale"

(* C17: an invocation of action_sd_upscale fails with an assertion error    *)
(* before it emits a status, reads the document (the attributes of Script   *)
(* stay as they were) or posts a request; no request of mode 2 is ever      *)
(* waiting and no layer is ever named 'sd upscale ...'.                     *)
C17_SdUpscaleDisabled ==
    [][/\ SdUpscaleInvoked' =>
              /\ ev'.err = "AssertionError"
              /\ ev'.emitted = <<>>
              /\ ev'.req = NoReq
              /\ self' = self /\ docs' = docs
              /\ pending' = pending /\ timers' = timers
       /\ \A r \in pending' : r.mode # 2
       /\ \A d \in DocIds : \A k \in 1..Len(docs'[d].layers) :
              docs'[d].layers[k].name[1] # "sd upscale"]_vars

\* action_sd_upscale was invoked with a document open
C17_Witness == SdUpscaleInvoked /\ activeDoc # NoDoc /\ nacts = 2

\* rectangle r lies within rectangle q (both <<x, y, width, height>>)
Within(r, q) ==
    /\ SelX(q) <= SelX(r) /\ SelX(r) + SelW(r) <= SelX(q) + SelW(q)
    /\ SelY(q) <= SelY(r) /\ SelY(r) + SelH(r) <= SelY(q) + SelH(q)

(* C18: for a selection rectangle R inside the canvas C and sizes           *)
(* base <= max <= min(C.w, C.h), the rectangle adjust_selection stores      *)
(* contains R and lies within C.                                            *)
C18_AdjustedContainsSelection ==
    ev.kind = "adjust_selection" =>
        LET d == docs[self.doc]
            adjusted == <<self.x, self.y, self.width, self.height>>
        IN /\ Within(d.selection, adjusted)
           /\ Within(adjusted, <<0, 0, d.width, d.height>>)

\* a selection that touches no edge of a canvas wider than high was enlarged
C18_Witness ==
    /\ ev.kind = "adjust_selection" /\ ev.opt
    /\ docs[self.doc].width > docs[self.doc].height
    /\ <<self.x, self.y, self.width, self.height>> # docs[self.doc].selection
    /\ SelX(docs[self.doc].selection) > 0
    /\ SelX(docs[self.doc].selection) + SelW(docs[self.doc].selection)
           < docs[self.doc].width

(* C19: every output of a response is inserted with the rectangle captured  *)
(* at dispatch: the rectangle insert starts from for output i+1, which is   *)
(* also its fit-to-selection target size, is the captured one whatever the  *)
(* sizes of outputs 1..i were.                                              *)
C19_SameRectForEveryOutput ==
    IsCallback =>
        \A i \in 1..Len(ev.inserts) : ev.inserts[i].entry = ev.req.frozen

(* C20: the layers of a response are created in, and the canvas growth is   *)
(* applied to, the document that was active when the request was            *)
(* dispatched, whatever actions were invoked before the callback fired.     *)
C20_LayersInDispatchDocument ==
    IsCallback =>
        \A i \in 1..Len(ev.inserts) : ev.inserts[i].doc = ev.req.doc

\* the step is a run of add_mask that went through
AddMaskRan == Len(timers') < Len(timers) /\ ev'.kind = "add_mask" /\ ev'.err = ""

(* C21: after add_mask has run, the selection and the active node of every  *)
(* document are those of immediately before it ran, whatever happened to    *)
(* the live selection between update_selection and the timer firing.        *)
C21_AddMaskRestores ==
    [][AddMaskRan =>
           \A d \in DocIds : /\ docs'[d].selection = docs[d].selection
                             /\ docs'[d].active = docs[d].active]_vars

\* the size of the canvas of document d, before and after the step
CanvasOf(D, d) == <<D[d].width, D[d].height>>

\* the rectangle captured for request r is no larger than the canvas of d
FitsCanvas(r, d) ==
    /\ d \in DocIds
    /\ r.frozen.width <= docs[d].width
    /\ r.frozen.height <= docs[d].height

\* the step is the callback of a request dispatched with an active selection
SelectionCallback ==
    /\ ev'.kind = "callback" /\ pending' # pending
    /\ ev'.req.c.has_selection

(* C22: no step makes the canvas of a document smaller in either dimension, *)
(* and the callback of a request dispatched with an active selection whose  *)
(* captured rectangle is no larger than the canvas found at callback time   *)
(* (that of Script.doc, on which insert works) resizes no canvas; nor does  *)
(* it resize the canvas of the dispatch document when the rectangle is no   *)
(* larger than that canvas.                                                 *)
C22_CanvasNeverShrinks ==
    [][/\ \A d \in DocIds : /\ docs'[d].width >= docs[d].width
                            /\ docs'[d].height >= docs[d].height
       /\ SelectionCallback /\ FitsCanvas(ev'.req, self.doc)
              => \A d \in DocIds : CanvasOf(docs', d) = CanvasOf(docs, d)
       /\ SelectionCallback /\ FitsCanvas(ev'.req, ev'.req.doc)
              => CanvasOf(docs', ev'.req.doc) = CanvasOf(docs, ev'.req.doc)]_vars

\* a response to a request with a selection brought an image larger than the
\* canvas, which was fitted to the captured rectangle and written without a
\* resize, on a canvas an earlier response had made grow
C22_Witness ==
    /\ IsCallback /\ ev.req.c.has_selection
    /\ \E i \in 1..Len(ev.inserts) :
        LET e == ev.inserts[i] IN
        /\ e.wrote /\ ~e.grew
        /\ e.enc.w > e.canvas0[1] \/ e.enc.h > e.canvas0[2]
        /\ e.width <= e.canvas0[1] /\ e.height <= e.canvas0[2]
    /\ \E d \in DocIds : docs[d].width > MaxDim \/ docs[d].height > MaxDim

====
